---- MODULE Spec2Model ----
(***************************************************************************)
(* Ride lifecycle, seat accounting and wallet ledger of the car-pooling    *)
(* backend (ride.controller.js, payment.controller.js, ride.model.js,      *)
(* notification.model.js).  Every request handler is one action; the       *)
(* documents of the store are the variables.                               *)
(***************************************************************************)
EXTENDS Integers, Sequences, FiniteSets, TLC

\* ------------------------------------------------------------------ bounds
MaxSeats == 2        \* largest seat count a driver supplies to createRide
MaxDebt == 0         \* a $inc update may take availableSeats down to -MaxDebt
MaxTx == 3           \* most Transaction documents created
MaxAmount == 2       \* largest amount of one payment request
MaxReviews == 3      \* most reviews stored, over all users

Users == {"u1", "u2", "u3"}
Drivers == {"u1"}    \* the users who publish rides (users are interchangeable)
RideIds == {"r1"}
Locs == {"A", "B"}
Routes == {<<"A", "B">>}   \* (start, end) pairs of the createRide requests
Origin == "O"        \* default coordinates [0, 0] of currentLocation
None == "-"
\* route.distance, vehicle.fuelEfficiency and status in the body of the createRide
\* requests (status None: the body has no such field)
Trips == {[distance |-> 100, fuelEfficiency |-> 10, status |-> None]}
\* User.vehicle of a registered driver (fuelEfficiency in km/l)
Profile == [fuelEfficiency |-> 10]

\* ------------------------------------------------------- schema constants
\* ride.model.js: availableSeats { min: 1 }
MinAvailableSeats == 1
\* ride.controller.js, completeRide: default fuel efficiency (km/l), kg CO2 per
\* litre of fuel (2.3, as a fraction below) and kg CO2 a tree absorbs per year
DefaultFuelEfficiency == 15
Co2PerTree == 22
\* ride.model.js: status enum
RideStatuses == {"scheduled", "in_progress", "completed", "cancelled"}
\* notification.model.js: type enum
NotificationTypes ==
  {"ride_request", "ride_accepted", "ride_rejected", "ride_cancelled",
   "ride_started", "ride_completed", "payment_received", "payment_sent",
   "rating_received", "system_alert", "safety_alert"}

VARIABLES
  rides,            \* Ride collection: RideIds -> ride document (status "none": no document)
  created,          \* ride ids already handed out by Ride.create
  capacity,         \* seat count supplied in the createRide request of each ride
  ridesAsDriver,    \* User.ridesAsDriver: Users -> set of the ride ids in the array
  ridesAsPassenger, \* User.ridesAsPassenger: Users -> set of the ride ids in the array
  balance,          \* User.wallet.balance
  walletTx,         \* User.wallet.transactions: Users -> sequence of transaction ids
  txs,              \* Transaction collection, in creation order
  notifs,           \* Notification documents created by the latest request
  res,              \* the latest request and its response
  reqs,             \* requests handled concurrently: what each has read, and its
                    \* answer once it has saved
  environmentalImpact, \* User.environmentalImpact: co2Saved, fuelSaved, treesEquivalent
  reviews,          \* User.reviews: Users -> sequence of [reviewer, role, rating]
  rating,           \* User.rating: Users -> [asDriver, asPassenger], each [average, count]
  vehicle           \* User.vehicle: Users -> [fuelEfficiency]

vars == <<rides, created, capacity, ridesAsDriver, ridesAsPassenger,
          balance, walletTx, txs, notifs, res, reqs,
          environmentalImpact, reviews, rating, vehicle>>

rideVars == <<rides, created, capacity, ridesAsDriver, ridesAsPassenger>>
ledgerVars == <<balance, walletTx, txs>>
ratingVars == <<reviews, rating>>
userVars == <<environmentalImpact, reviews, rating, vehicle>>

\* ------------------------------------------------------------- numbers
\* a JavaScript number that is not an integer is kept as an exact fraction
\* <<numerator, denominator>> in lowest terms; <<0, 0>> is NaN
RECURSIVE GCD(_, _)
GCD(a, b) == IF b = 0 THEN a ELSE GCD(b, a % b)

Abs(n) == IF n < 0 THEN -n ELSE n

NaN == <<0, 0>>

Rat(n, d) ==
  IF d = 0 THEN NaN
  ELSE LET g == GCD(Abs(n), Abs(d))
           sgn == IF d < 0 THEN -1 ELSE 1
       IN <<sgn * (n \div g), sgn * (d \div g)>>

Zero == Rat(0, 1)

Co2PerLitre == Rat(23, 10)

RatAdd(x, y) ==
  IF x[2] = 0 \/ y[2] = 0 THEN NaN
  ELSE Rat(x[1] * y[2] + y[1] * x[2], x[2] * y[2])

RatMul(x, y) ==
  IF x[2] = 0 \/ y[2] = 0 THEN NaN ELSE Rat(x[1] * y[1], x[2] * y[2])

\* x / y: 0 / 0 is NaN; a non-zero number over 0 is Infinity, which these
\* handlers never produce and which is kept as NaN here
RatDiv(x, y) ==
  IF x[2] = 0 \/ y[2] = 0 THEN NaN ELSE Rat(x[1] * y[2], x[2] * y[1])

\* user.model.js defaults: environmentalImpact and rating start at 0
NoImpact == [co2Saved |-> Zero, fuelSaved |-> Zero, treesEquivalent |-> Zero]

\* ------------------------------------------------------------- documents
NoRide ==
  [driver |-> None, availableSeats |-> 0, status |-> "none",
   passengers |-> <<>>, startLocation |-> None, endLocation |-> None,
   currentLocation |-> Origin, cancelled |-> FALSE,
   distance |-> 0, fuelEfficiency |-> 0, environmentalImpact |-> NoImpact]

\* Ride.create(req.body): schema defaults of ride.model.js
\* route.distance and vehicle.fuelEfficiency are optional numbers: 0 stands for
\* an absent value as well, the code reads both through `|| default`
NewRide(u, seats, from, to, trip) ==
  [driver |-> u, availableSeats |-> seats, status |-> "scheduled",
   passengers |-> <<>>, startLocation |-> from, endLocation |-> to,
   currentLocation |-> Origin, cancelled |-> FALSE,
   distance |-> trip.distance, fuelEfficiency |-> trip.fuelEfficiency,
   environmentalImpact |-> NoImpact]

\* passenger sub-document pushed by requestRide; fare.status defaults to pending
NewPassenger(u) ==
  [user |-> u, status |-> "pending", fare |-> [amount |-> 0, status |-> "pending"]]

\* the handler that answered last and the kind of its answer
Response(op, resp) == [op |-> op, resp |-> resp]

Note(recipient, type) == [recipient |-> recipient, type |-> type]

\* ------------------------------------------------------------- helpers
\* Array.prototype.findIndex, 1-based, 0 when no element matches
FindIndex(seq, Test(_)) ==
  IF \E i \in 1..Len(seq) : Test(seq[i])
  THEN CHOOSE i \in 1..Len(seq) :
         Test(seq[i]) /\ \A j \in 1..(i - 1) : ~Test(seq[j])
  ELSE 0

\* Array.prototype.filter
Filter(seq, Test(_)) == SelectSeq(seq, Test)

\* Array.prototype.splice(i, 1)
Splice(seq, i) == [j \in 1..(Len(seq) - 1) |-> IF j < i THEN seq[j] ELSE seq[j + 1]]

IsAccepted(p) == p.status = "accepted"

Accepted(ride) == Filter(ride.passengers, IsAccepted)

\* users of a sequence of passenger entries, in order
Recipients(ps) == [i \in 1..Len(ps) |-> ps[i].user]

\* Notification.create: the type enum is validated, an unknown type throws
NotifValid(type) == type \in NotificationTypes

\* pre-save validation of a ride document: availableSeats { required, min: 1 }
RideValid(doc) == doc.availableSeats >= MinAvailableSeats

\* $pull / $push on a user's array of ride ids
Pull(arr, u, r) == [arr EXCEPT ![u] = @ \ {r}]
Push(arr, u, r) == [arr EXCEPT ![u] = @ \cup {r}]

RECURSIVE PullAll(_, _, _)
PullAll(arr, us, r) ==
  IF us = <<>> THEN arr ELSE PullAll(Pull(arr, Head(us), r), Tail(us), r)

NotesTo(us, type) == [i \in 1..Len(us) |-> Note(us[i], type)]

\* user.model.js default: rating starts at 0
NoRating ==
  [asDriver |-> [average |-> Zero, count |-> 0],
   asPassenger |-> [average |-> Zero, count |-> 0]]

TypeOK ==
  /\ created \subseteq RideIds
  /\ \A r \in RideIds : rides[r].status \in RideStatuses \cup {"none"}

Init ==
  /\ rides = [r \in RideIds |-> NoRide]
  /\ created = {}
  /\ capacity = [r \in RideIds |-> 0]
  /\ ridesAsDriver = [u \in Users |-> {}]
  /\ ridesAsPassenger = [u \in Users |-> {}]
  /\ balance = [u \in Users |-> 0]
  /\ walletTx = [u \in Users |-> <<>>]
  /\ txs = <<>>
  /\ notifs = <<>>
  /\ res = Response("init", "ok")
  /\ reqs = {}
  /\ environmentalImpact = [u \in Users |-> NoImpact]
  /\ reviews = [u \in Users |-> <<>>]
  /\ rating = [u \in Users |-> NoRating]
  /\ vehicle = [u \in Users |-> Profile]

\* ride.vehicle.fuelEfficiency || 15
Efficiency_Raw(ride) == ride.fuelEfficiency

Efficiency(ride) ==
  IF ride.fuelEfficiency = 0 THEN DefaultFuelEfficiency ELSE ride.fuelEfficiency

\* (distance * passengerCount) / fuelEfficiency
FuelSaved(distance, passengerCount, fuelEfficiency) ==
  RatDiv(Rat(distance * passengerCount, 1), Rat(fuelEfficiency, 1))

\* fuelSaved * 2.3
Co2Saved(fuelSaved) == RatMul(fuelSaved, Co2PerLitre)

\* co2Saved / 22
TreesEquivalent(co2Saved) == RatDiv(co2Saved, Rat(Co2PerTree, 1))

\* the trip-level amounts completeRide computes from the ride it has saved
TripImpact(ride) ==
  LET fuelSaved == FuelSaved(ride.distance, Len(Accepted(ride)), Efficiency(ride))
      co2Saved == Co2Saved(fuelSaved)
  IN [co2Saved |-> co2Saved, fuelSaved |-> fuelSaved,
      treesEquivalent |-> TreesEquivalent(co2Saved)]

\* rideSchema.pre('save'): when route.distance, vehicle.fuelEfficiency or
\* passengers is modified, the snapshot is recomputed from the document saved
PreSave(doc) == [doc EXCEPT !.environmentalImpact = TripImpact(doc)]

\* ------------------------------------------------------------ ride.controller.js
\* createRide: POST /api/rides (availableSeats isInt({min: 1}) in ride.routes.js)
createRide(u, seats, from, to, trip) ==
  /\ \E r \in RideIds \ created :
       IF seats < 1
       THEN /\ res' = Response("createRide", "ValidationError")
            /\ notifs' = <<>>
            /\ UNCHANGED <<userVars, rideVars, ledgerVars, reqs>>
       ELSE \* req.body.vehicle = user.vehicle; Ride.create(req.body) takes the
            \* status of the body, the schema default is scheduled
            /\ rides' = [rides EXCEPT ![r] = PreSave(
                 [NewRide(u, seats, from, to, trip) EXCEPT
                    !.fuelEfficiency = vehicle[u].fuelEfficiency,
                    !.status = IF trip.status = None THEN @ ELSE trip.status])]
            /\ created' = created \cup {r}
            /\ capacity' = [capacity EXCEPT ![r] = seats]
            /\ ridesAsDriver' = Push(ridesAsDriver, u, r)
            /\ notifs' = <<>>
            /\ res' = Response("createRide", "ok")
            /\ UNCHANGED <<userVars, ridesAsPassenger, ledgerVars, reqs>>

\* a handler that answers without writing any document
Answer(op, resp) ==
  /\ res' = Response(op, resp)
  /\ notifs' = <<>>
  /\ UNCHANGED <<userVars, rideVars, ledgerVars>>

Reject(op, resp) ==
  /\ Answer(op, resp)
  /\ UNCHANGED reqs

\* a write that increments the version key (__v) of ride r makes every
\* in-flight request that read the ride earlier stale
Bump(r) == {[q EXCEPT !.stale = (@ \/ (q.ride = r /\ q.pc = "read"))] : q \in reqs}

\* requestRide's capacity check: ride.availableSeats <= 0
RideFull_Never(ride) == FALSE

RideFull(ride) == ride.availableSeats <= 0

\* requestRide after the ride document `ride` has been read; ride.save() sends the
\* pushed entry as a $push, which is applied to the stored array whatever other
\* requests have written to it since the read
RequestWith(ride, u, r) ==
  LET Mine(p) == p.user = u
  IN
  IF ride.status = "none" THEN Answer("requestRide", "NotFound")
  ELSE IF ride.driver = u THEN Answer("requestRide", "Conflict")
  ELSE IF FindIndex(ride.passengers, Mine) # 0
    THEN Answer("requestRide", "Conflict")
  ELSE IF RideFull(ride)
    THEN Answer("requestRide", "Conflict")
  ELSE LET doc == [ride EXCEPT !.passengers = Append(@, NewPassenger(u))]
       IN IF ~RideValid(doc)
          THEN Answer("requestRide", "ValidationError")
          ELSE IF rides[r].status = "none"
          THEN Answer("requestRide", "VersionError")
          ELSE /\ rides' = [rides EXCEPT
                             ![r].passengers = Append(@, NewPassenger(u)),
                             ![r].environmentalImpact = PreSave(doc).environmentalImpact]
               /\ notifs' = <<Note(ride.driver, "ride_request")>>
               /\ res' = Response("requestRide", "ok")
               /\ UNCHANGED <<userVars, created, capacity, ridesAsDriver, ridesAsPassenger,
                              ledgerVars>>

\* requestRide: POST /api/rides/:id/request, handled without any other request in
\* between
requestRide(u, r) ==
  /\ RequestWith(rides[r], u, r)
  /\ reqs' = IF res'.resp = "ok" THEN Bump(r) ELSE reqs

\* what respondToRideRequest's ride.save() writes: the delta of the document it
\* read ($set passengers.<idx>.status, $set availableSeats, $set
\* environmentalImpact from the pre-save hook) on the stored document
RespondDelta(db, doc, idx, status) ==
  [db EXCEPT !.passengers[idx].status = status,
             !.availableSeats = IF status = "accepted"
                                THEN doc.availableSeats - 1 ELSE @,
             !.environmentalImpact =
                PreSave([doc EXCEPT !.passengers[idx].status = status]).environmentalImpact]

\* respondToRideRequest after the ride document doc has been read
\* PUT /api/rides/:id/request/:userId, status isIn(['accepted', 'rejected'])
RespondWith(doc, stale, d, r, target, status) ==
  LET Pending(p) == p.user = target /\ p.status = "pending"
      idx == FindIndex(doc.passengers, Pending)
      mem == [doc EXCEPT !.passengers[idx].status = status,
                         !.availableSeats = IF status = "accepted" THEN @ - 1 ELSE @]
  IN
  IF doc.status = "none"
    THEN Answer("respondToRideRequest", "NotFound")
  ELSE IF doc.driver # d
    THEN Answer("respondToRideRequest", "Unauthorized")
  ELSE IF idx = 0
    THEN Answer("respondToRideRequest", "NotFound")
  ELSE
    /\ ridesAsPassenger' = IF status = "accepted"
                           THEN Push(ridesAsPassenger, target, r)
                           ELSE ridesAsPassenger
    /\ IF ~RideValid(mem)
       THEN /\ res' = Response("respondToRideRequest", "ValidationError")
            /\ notifs' = <<>>
            /\ UNCHANGED <<rides>>
       ELSE IF stale \/ rides[r].status = "none"
       THEN /\ res' = Response("respondToRideRequest", "VersionError")
            /\ notifs' = <<>>
            /\ UNCHANGED <<rides>>
       ELSE /\ rides' = [rides EXCEPT ![r] = RespondDelta(@, doc, idx, status)]
            /\ notifs' = <<Note(target, IF status = "accepted"
                                        THEN "ride_accepted" ELSE "ride_rejected")>>
            /\ res' = Response("respondToRideRequest", "ok")
    /\ UNCHANGED <<userVars, created, capacity, ridesAsDriver, ledgerVars>>

\* respondToRideRequest handled without any other request in between
respondToRideRequest(d, r, target, status) ==
  /\ RespondWith(rides[r], FALSE, d, r, target, status)
  /\ UNCHANGED reqs

\* cancelRideRequest: DELETE /api/rides/:id/request
cancelRideRequest(u, r) ==
  LET ride == rides[r]
      Mine(p) == p.user = u
      idx == FindIndex(ride.passengers, Mine)
      wasAccepted == ride.passengers[idx].status = "accepted"
      doc == [ride EXCEPT !.availableSeats = IF wasAccepted THEN @ + 1 ELSE @,
                          !.passengers = Splice(@, idx)]
  IN
  IF ride.status = "none" THEN Reject("cancelRideRequest", "NotFound")
  ELSE IF idx = 0 THEN Reject("cancelRideRequest", "NotFound")
  ELSE
    /\ ridesAsPassenger' = IF wasAccepted THEN Pull(ridesAsPassenger, u, r)
                                          ELSE ridesAsPassenger
    /\ IF ~RideValid(doc)
       THEN /\ res' = Response("cancelRideRequest", "ValidationError")
            /\ notifs' = <<>>
            /\ UNCHANGED <<rides, reqs>>
       ELSE /\ rides' = [rides EXCEPT ![r] = PreSave(doc)]
            /\ reqs' = Bump(r)
            /\ notifs' = <<Note(ride.driver, "ride_cancelled")>>
            /\ res' = Response("cancelRideRequest", "ok")
    /\ UNCHANGED <<userVars, created, capacity, ridesAsDriver, ledgerVars>>

\* startRide's guard: ride.status !== 'scheduled'
NotScheduled_Loose(ride) == ride.status \notin {"scheduled", "in_progress"}

NotScheduled(ride) == ride.status # "scheduled"

\* startRide: PUT /api/rides/:id/start
startRide(d, r) ==
  LET ride == rides[r]
      doc == [ride EXCEPT !.status = "in_progress",
                          !.currentLocation = ride.startLocation]
  IN
  IF ride.status = "none" THEN Reject("startRide", "NotFound")
  ELSE IF ride.driver # d THEN Reject("startRide", "Unauthorized")
  ELSE IF NotScheduled(ride)
    THEN Reject("startRide", "InvalidTransition")
  ELSE IF ~RideValid(doc)
    THEN Reject("startRide", "ValidationError")
  ELSE /\ rides' = [rides EXCEPT ![r] = doc]
       /\ notifs' = NotesTo(Recipients(Accepted(doc)), "ride_started")
       /\ res' = Response("startRide", "ok")
       /\ UNCHANGED <<userVars, created, capacity, ridesAsDriver, ridesAsPassenger,
                      ledgerVars, reqs>>

\* completeRide's guard: ride.status !== 'in_progress'
NotInProgress_Loose(ride) == ride.status \notin {"in_progress", "scheduled"}

NotInProgress(ride) == ride.status # "in_progress"

\* environmentalImpact.<field> += amount, for the three fields
AddImpact(acc, amount) ==
  [co2Saved |-> RatAdd(acc.co2Saved, amount.co2Saved),
   fuelSaved |-> RatAdd(acc.fuelSaved, amount.fuelSaved),
   treesEquivalent |-> RatAdd(acc.treesEquivalent, amount.treesEquivalent)]

\* what one accepted passenger receives: total / passengerCount
Share_Full(total, passengerCount) == total

Share(total, passengerCount) ==
  LET n == Rat(passengerCount, 1)
  IN [co2Saved |-> RatDiv(total.co2Saved, n),
      fuelSaved |-> RatDiv(total.fuelSaved, n),
      treesEquivalent |-> RatDiv(total.treesEquivalent, n)]

\* the loop over the accepted passengers: each is read, increased and saved
RECURSIVE AddShares(_, _, _)
AddShares(impact, us, share) ==
  IF us = <<>> THEN impact
  ELSE AddShares([impact EXCEPT ![Head(us)] = AddImpact(@, share)], Tail(us), share)

\* completeRide after the ride document `ride` has been read; ride.save() sends
\* the two paths it has set (status, currentLocation) as a $set, without a
\* version check
CompleteWith(ride, d, r) ==
  LET doc == [ride EXCEPT !.status = "completed",
                          !.currentLocation = ride.endLocation]
      passengers == Recipients(Accepted(doc))
      total == TripImpact(doc)
      driverImpact == [environmentalImpact EXCEPT ![ride.driver] = AddImpact(@, total)]
  IN
  IF ride.status = "none" THEN Answer("completeRide", "NotFound")
  ELSE IF ride.driver # d THEN Answer("completeRide", "Unauthorized")
  ELSE IF NotInProgress(ride)
    THEN Answer("completeRide", "InvalidTransition")
  ELSE IF ~RideValid(doc)
    THEN Answer("completeRide", "ValidationError")
  ELSE /\ rides' = [rides EXCEPT ![r].status = doc.status,
                                 ![r].currentLocation = doc.currentLocation]
       /\ environmentalImpact' =
            AddShares(driverImpact, passengers, Share(total, Len(passengers)))
       /\ notifs' = NotesTo(passengers, "ride_completed")
       /\ res' = Response("completeRide", "ok")
       /\ UNCHANGED <<ratingVars, vehicle, created, capacity, ridesAsDriver,
                      ridesAsPassenger, ledgerVars>>

\* completeRide: PUT /api/rides/:id/complete, handled without any other request
\* in between
completeRide(d, r) ==
  /\ CompleteWith(rides[r], d, r)
  /\ UNCHANGED reqs

\* cancelRide: PUT /api/rides/:id/cancel
cancelRide(u, r) ==
  LET ride == rides[r]
      isDriver == ride.driver = u
      MineAccepted(p) == p.user = u /\ p.status = "accepted"
      isPassenger == FindIndex(ride.passengers, MineAccepted) # 0
      passengers == Recipients(Accepted(ride))
      doc == [ride EXCEPT !.status = "cancelled", !.cancelled = TRUE]
  IN
  IF ride.status = "none" THEN Reject("cancelRide", "NotFound")
  ELSE IF ~isDriver /\ ~isPassenger
    THEN Reject("cancelRide", "Unauthorized")
  ELSE IF ride.status \in {"completed", "cancelled"}
    THEN Reject("cancelRide", "InvalidTransition")
  ELSE IF isDriver
    THEN \* the notifications and the $pull updates are written before ride.save()
         /\ notifs' = NotesTo(passengers, "ride_cancelled")
         /\ ridesAsPassenger' = PullAll(ridesAsPassenger, passengers, r)
         /\ ridesAsDriver' = Pull(ridesAsDriver, u, r)
         /\ IF RideValid(doc)
            THEN /\ rides' = [rides EXCEPT ![r] = doc]
                 /\ res' = Response("cancelRide", "ok")
            ELSE /\ UNCHANGED rides
                 /\ res' = Response("cancelRide", "ValidationError")
         /\ UNCHANGED <<userVars, created, capacity, ledgerVars, reqs>>
  ELSE \* passenger branch: Notification.create runs before the $pull and the save
       IF ~NotifValid("passenger_cancelled")
       THEN Reject("cancelRide", "ValidationError")
       ELSE LET Mine(p) == p.user = u
                idx == FindIndex(ride.passengers, Mine)
                pdoc == [ride EXCEPT !.passengers[idx].status = "cancelled",
                                     !.availableSeats = @ + 1]
            IN /\ notifs' = <<Note(ride.driver, "passenger_cancelled")>>
               /\ ridesAsPassenger' = Pull(ridesAsPassenger, u, r)
               /\ IF RideValid(pdoc)
                  THEN /\ rides' = [rides EXCEPT ![r] = PreSave(pdoc)]
                       /\ res' = Response("cancelRide", "ok")
                  ELSE /\ UNCHANGED rides
                       /\ res' = Response("cancelRide", "ValidationError")
               /\ UNCHANGED <<userVars, created, capacity, ridesAsDriver, ledgerVars, reqs>>

\* the req.body documents of the updateRide requests: PUT /api/rides/:id has no
\* validator in ride.routes.js, the body goes to findByIdAndUpdate as it is
UpdateBodies ==
  {[field |-> "notes", num |-> 0, str |-> None]}
  \cup {[field |-> "availableSeats", num |-> n, str |-> None] : n \in 0..1}
  \cup {[field |-> "status", num |-> 0, str |-> s] : s \in {"scheduled", "completed"}}
  \cup {[field |-> "$inc", num |-> -1, str |-> None]}

\* update validators (runValidators: true) run on $set only, not on $inc
UpdateValid(body) ==
  body.field = "availableSeats" => body.num >= MinAvailableSeats

\* Ride.findByIdAndUpdate(id, req.body)
ApplyUpdate(ride, body) ==
  IF body.field = "availableSeats" THEN [ride EXCEPT !.availableSeats = body.num]
  ELSE IF body.field = "status" THEN [ride EXCEPT !.status = body.str]
  ELSE IF body.field = "$inc" THEN [ride EXCEPT !.availableSeats = @ + body.num]
  ELSE IF body.field = "route.distance" THEN [ride EXCEPT !.distance = body.num]
  ELSE ride

\* updateRide's guard: ride.status === 'in_progress' || ride.status === 'completed'
NotUpdatable_InProgress(ride) == ride.status = "in_progress"

NotUpdatable(ride) == ride.status \in {"in_progress", "completed"}

\* updateRide: PUT /api/rides/:id
updateRide(d, r, body) ==
  LET ride == rides[r]
      doc == ApplyUpdate(ride, body)
      passengers == Recipients(Accepted(doc))
  IN
  IF ride.status = "none" THEN Reject("updateRide", "NotFound")
  ELSE IF ride.driver # d THEN Reject("updateRide", "Unauthorized")
  ELSE IF NotUpdatable(ride)
    THEN Reject("updateRide", "InvalidTransition")
  ELSE IF ~UpdateValid(body) THEN Reject("updateRide", "ValidationError")
  ELSE /\ doc.availableSeats >= -MaxDebt
       /\ rides' = [rides EXCEPT ![r] = doc]
       /\ IF passengers # <<>> /\ ~NotifValid("ride_updated")
          THEN /\ notifs' = <<>>
               /\ res' = Response("updateRide", "ValidationError")
          ELSE /\ notifs' = NotesTo(passengers, "ride_updated")
               /\ res' = Response("updateRide", "ok")
       /\ UNCHANGED <<userVars, created, capacity, ridesAsDriver, ridesAsPassenger,
                      ledgerVars, reqs>>

\* deleteRide: DELETE /api/rides/:id
deleteRide(d, r) ==
  LET ride == rides[r]
      passengers == Recipients(Accepted(ride))
  IN
  IF ride.status = "none" THEN Reject("deleteRide", "NotFound")
  ELSE IF ride.driver # d THEN Reject("deleteRide", "Unauthorized")
  ELSE IF ride.status = "in_progress" THEN Reject("deleteRide", "InvalidTransition")
  ELSE /\ notifs' = NotesTo(passengers, "ride_cancelled")
       /\ rides' = [rides EXCEPT ![r] = NoRide]
       /\ ridesAsDriver' = Pull(ridesAsDriver, d, r)
       /\ ridesAsPassenger' = PullAll(ridesAsPassenger, passengers, r)
       /\ res' = Response("deleteRide", "ok")
       /\ UNCHANGED <<userVars, created, capacity, ledgerVars, reqs>>

\* updateRideLocation: PUT /api/rides/:id/location
updateRideLocation(d, r, loc) ==
  LET ride == rides[r]
      doc == [ride EXCEPT !.currentLocation = loc]
  IN
  IF ride.status = "none" THEN Reject("updateRideLocation", "NotFound")
  ELSE IF ride.driver # d THEN Reject("updateRideLocation", "Unauthorized")
  ELSE IF ride.status # "in_progress"
    THEN Reject("updateRideLocation", "InvalidTransition")
  ELSE IF ~RideValid(doc) THEN Reject("updateRideLocation", "ValidationError")
  ELSE /\ rides' = [rides EXCEPT ![r] = doc]
       /\ notifs' = <<>>
       /\ res' = Response("updateRideLocation", "ok")
       /\ UNCHANGED <<userVars, created, capacity, ridesAsDriver, ridesAsPassenger,
                      ledgerVars, reqs>>

\* ------------------------------------------------------- payment.controller.js
Transaction(sender, receiver, ride, amount, type, status, method) ==
  [sender |-> sender, receiver |-> receiver, ride |-> ride, amount |-> amount,
   type |-> type, status |-> status, paymentMethod |-> method]

\* number of decimal digits of a natural number
RECURSIVE Digits(_)
Digits(n) == IF n < 10 THEN 1 ELSE 1 + Digits(n \div 10)

RECURSIVE Pow10(_)
Pow10(k) == IF k = 0 THEN 1 ELSE 10 * Pow10(k - 1)

\* a + amount in JavaScript, a being a number: req.body.amount is a number in a
\* JSON body and a string in a form-encoded body (express.urlencoded; isNumeric
\* accepts both); number + string concatenates the decimal texts, and the Number
\* path of the schema casts the text back to a number when it is assigned
JsPlus(a, amount, text) ==
  IF ~text THEN a + amount
  ELSE IF a >= 0 THEN a * Pow10(Digits(amount)) + amount
  ELSE -((-a) * Pow10(Digits(amount)) + amount)

\* wallet.balance += amount

Credit(bal, u, amount, text) == [bal EXCEPT ![u] = JsPlus(@, amount, text)]

\* withdrawFunds' guard: user.wallet.balance < amount
InsufficientBalance_Never(u, amount) == FALSE

InsufficientBalance(u, amount) == balance[u] < amount

\* initiateRidePayment's guard: user.wallet.balance < amount
InsufficientWalletBalance_Never(u, amount) == FALSE

InsufficientWalletBalance(u, amount) == balance[u] < amount

\* completeRidePayment's guard: transaction.status !== 'pending'
NotPending_Never(transaction) == FALSE

NotPending(transaction) == transaction.status # "pending"

\* completeRidePayment's guard: transaction.sender.toString() !== req.user.id
NotSender_Never(transaction, u) == FALSE

NotSender(transaction, u) == transaction.sender # u

\* addFundsToWallet: POST /api/payments/wallet/add-funds
addFundsToWallet(u, amount, text, method) ==
  /\ Len(txs) < MaxTx
  /\ txs' = Append(txs, Transaction(u, u, None, amount, "wallet_topup", "completed", method))
  /\ balance' = Credit(balance, u, amount, text)
  /\ walletTx' = [walletTx EXCEPT ![u] = Append(@, Len(txs) + 1)]
  /\ notifs' = <<>>
  /\ res' = Response("addFundsToWallet", "ok")
  /\ UNCHANGED <<userVars, rideVars, reqs>>

\* withdrawFunds: POST /api/payments/wallet/withdraw
withdrawFunds(u, amount) ==
  IF InsufficientBalance(u, amount) THEN Reject("withdrawFunds", "InsufficientFunds")
  ELSE /\ Len(txs) < MaxTx
       /\ txs' = Append(txs, Transaction(u, u, None, amount, "wallet_withdrawal",
                                         "pending", "bank_transfer"))
       /\ balance' = [balance EXCEPT ![u] = @ - amount]
       /\ walletTx' = [walletTx EXCEPT ![u] = Append(@, Len(txs) + 1)]
       /\ notifs' = <<>>
       /\ res' = Response("withdrawFunds", "ok")
       /\ UNCHANGED <<userVars, rideVars, reqs>>

\* initiateRidePayment: POST /api/payments/ride/:rideId
initiateRidePayment(u, r, amount, text, method) ==
  LET ride == rides[r]
      MineAccepted(p) == p.user = u /\ p.status = "accepted"
      idx == FindIndex(ride.passengers, MineAccepted)
      id == Len(txs) + 1
  IN
  IF ride.status = "none" THEN Reject("initiateRidePayment", "NotFound")
  ELSE IF idx = 0 THEN Reject("initiateRidePayment", "Unauthorized")
  ELSE IF ride.passengers[idx].fare.status = "paid"
    THEN Reject("initiateRidePayment", "InvalidState")
  ELSE IF method = "wallet"
    THEN IF InsufficientWalletBalance(u, amount)
         THEN Reject("initiateRidePayment", "InsufficientFunds")
         ELSE LET doc == [ride EXCEPT !.passengers[idx].fare =
                                        [amount |-> amount, status |-> "paid"]]
                  debited == [balance EXCEPT ![u] = @ - amount]
              IN /\ Len(txs) < MaxTx
                 /\ txs' = Append(txs, Transaction(u, ride.driver, r, amount,
                                                   "ride_payment", "completed", "wallet"))
                 \* user.save(), then the driver is read and saved
                 /\ balance' = Credit(debited, ride.driver, amount, text)
                 /\ walletTx' = [[walletTx EXCEPT ![u] = Append(@, id)]
                                   EXCEPT ![ride.driver] = Append(@, id)]
                 /\ IF RideValid(doc)
                    THEN /\ rides' = [rides EXCEPT ![r] = PreSave(doc)]
                         /\ notifs' = <<Note(ride.driver, "payment_received")>>
                         /\ res' = Response("initiateRidePayment", "ok")
                    ELSE /\ UNCHANGED rides
                         /\ notifs' = <<>>
                         /\ res' = Response("initiateRidePayment", "ValidationError")
                 /\ UNCHANGED <<userVars, created, capacity, ridesAsDriver, ridesAsPassenger, reqs>>
  ELSE LET doc == [ride EXCEPT !.passengers[idx].fare =
                                 [amount |-> amount, status |-> "pending"]]
       IN /\ Len(txs) < MaxTx
          /\ txs' = Append(txs, Transaction(u, ride.driver, r, amount,
                                            "ride_payment", "pending", method))
          /\ notifs' = <<>>
          /\ IF RideValid(doc)
             THEN /\ rides' = [rides EXCEPT ![r] = PreSave(doc)]
                  /\ res' = Response("initiateRidePayment", "ok")
             ELSE /\ UNCHANGED rides
                  /\ res' = Response("initiateRidePayment", "ValidationError")
          /\ UNCHANGED <<userVars, created, capacity, ridesAsDriver, ridesAsPassenger,
                         balance, walletTx, reqs>>

\* completeRidePayment: PUT /api/payments/ride/:rideId/complete
completeRidePayment(u, r, transactionId) ==
  LET transaction == txs[transactionId]
      ride == rides[r]
      Mine(p) == p.user = u
      idx == FindIndex(ride.passengers, Mine)
      doc == IF idx = 0 THEN ride
             ELSE PreSave([ride EXCEPT !.passengers[idx].fare.status = "paid"])
  IN
  IF transactionId > Len(txs) THEN Reject("completeRidePayment", "NotFound")
  ELSE IF NotSender(transaction, u) THEN Reject("completeRidePayment", "Unauthorized")
  ELSE IF NotPending(transaction)
    THEN Reject("completeRidePayment", "InvalidState")
  ELSE \* the transaction is saved as completed before the ride is looked up
    /\ txs' = [txs EXCEPT ![transactionId].status = "completed"]
    /\ IF ride.status = "none"
       THEN /\ res' = Response("completeRidePayment", "NotFound")
            /\ notifs' = <<>>
            /\ UNCHANGED <<rides, balance, walletTx>>
       ELSE IF idx # 0 /\ ~RideValid(doc)
       THEN /\ res' = Response("completeRidePayment", "ValidationError")
            /\ notifs' = <<>>
            /\ UNCHANGED <<rides, balance, walletTx>>
       ELSE /\ rides' = [rides EXCEPT ![r] = doc]
            /\ balance' = Credit(balance, ride.driver, transaction.amount, FALSE)
            /\ walletTx' = [walletTx EXCEPT ![ride.driver] = Append(@, transactionId)]
            /\ notifs' = <<Note(ride.driver, "payment_received")>>
            /\ res' = Response("completeRidePayment", "ok")
    /\ UNCHANGED <<userVars, created, capacity, ridesAsDriver, ridesAsPassenger, reqs>>

\* requestRefund: POST /api/payments/ride/:rideId/refund
requestRefund(u, r) ==
  LET ride == rides[r]
      MineAccepted(p) == p.user = u /\ p.status = "accepted"
      idx == FindIndex(ride.passengers, MineAccepted)
      Paid(t) == /\ t.sender = u /\ t.receiver = ride.driver /\ t.ride = r
                 /\ t.type = "ride_payment" /\ t.status = "completed"
      found == FindIndex(txs, Paid)
      transaction == txs[found]
  IN
  IF ride.status = "none" THEN Reject("requestRefund", "NotFound")
  ELSE IF idx = 0 THEN Reject("requestRefund", "Unauthorized")
  ELSE IF ride.passengers[idx].fare.status # "paid"
    THEN Reject("requestRefund", "InvalidState")
  ELSE IF found = 0 THEN Reject("requestRefund", "NotFound")
  ELSE /\ Len(txs) < MaxTx
       /\ txs' = Append(txs, Transaction(ride.driver, u, r, transaction.amount, "refund",
                                         "pending", transaction.paymentMethod))
       /\ IF NotifValid("refund_requested")
          THEN /\ notifs' = <<Note(ride.driver, "refund_requested")>>
               /\ res' = Response("requestRefund", "ok")
          ELSE /\ notifs' = <<>>
               /\ res' = Response("requestRefund", "ValidationError")
       /\ UNCHANGED <<userVars, rideVars, balance, walletTx, reqs>>

Next ==
  \/ \E u \in Drivers, seats \in 0..MaxSeats, route \in Routes, trip \in Trips :
       createRide(u, seats, route[1], route[2], trip)
  \/ \E u \in Users, r \in RideIds : requestRide(u, r)
  \/ \E d \in Users, r \in RideIds, target \in Users, status \in {"accepted", "rejected"} :
       respondToRideRequest(d, r, target, status)
  \/ \E u \in Users, r \in RideIds : cancelRideRequest(u, r)
  \/ \E d \in Users, r \in RideIds : startRide(d, r)
  \/ \E d \in Users, r \in RideIds : completeRide(d, r)
  \/ \E u \in Users, r \in RideIds : cancelRide(u, r)
  \/ \E d \in Users, r \in RideIds, body \in UpdateBodies : updateRide(d, r, body)
  \/ \E d \in Users, r \in RideIds : deleteRide(d, r)
  \/ \E d \in Users, r \in RideIds, loc \in Locs : updateRideLocation(d, r, loc)

Spec == Init /\ [][Next]_vars

\* ------------------------------------------------------------ the ledger
\* a ride of u1 with two seats on which u2 has been accepted and u3 is pending
\* (createRide, requestRide twice, respondToRideRequest)
LedgerRide ==
  PreSave(
  [NewRide("u1", 2, "A", "B", [distance |-> 100, fuelEfficiency |-> 10]) EXCEPT
     !.availableSeats = 1,
     !.passengers = <<[NewPassenger("u2") EXCEPT !.status = "accepted"],
                      NewPassenger("u3")>>])

InitLedger ==
  /\ rides = [r \in RideIds |-> LedgerRide]
  /\ created = RideIds
  /\ capacity = [r \in RideIds |-> 2]
  /\ ridesAsDriver = [u \in Users |-> IF u = "u1" THEN RideIds ELSE {}]
  /\ ridesAsPassenger = [u \in Users |-> IF u = "u2" THEN RideIds ELSE {}]
  /\ balance = [u \in Users |-> 0]
  /\ walletTx = [u \in Users |-> <<>>]
  /\ txs = <<>>
  /\ notifs = <<Note("u2", "ride_accepted")>>
  /\ res = Response("respondToRideRequest", "ok")
  /\ reqs = {}
  /\ environmentalImpact = [u \in Users |-> NoImpact]
  /\ reviews = [u \in Users |-> <<>>]
  /\ rating = [u \in Users |-> NoRating]
  /\ vehicle = [u \in Users |-> Profile]

PaymentMethods == {"wallet", "cash"}
\* the users who top up and withdraw: the driver and the accepted passenger
Payers == {"u1", "u2"}

NextLedger ==
  \/ \E u \in Payers, amount \in 1..MaxAmount, text \in BOOLEAN :
       addFundsToWallet(u, amount, text, "card")
  \/ \E u \in Payers, amount \in 1..MaxAmount : withdrawFunds(u, amount)
  \/ \E u \in Users, r \in RideIds, amount \in 1..MaxAmount, text \in BOOLEAN,
        method \in PaymentMethods :
       initiateRidePayment(u, r, amount, text, method)
  \/ \E u \in Users, r \in RideIds, transactionId \in 1..MaxTx :
       completeRidePayment(u, r, transactionId)
  \/ \E u \in Users, r \in RideIds : requestRefund(u, r)
  \/ \E d \in Users, r \in RideIds : deleteRide(d, r)

SpecLedger == InitLedger /\ [][NextLedger]_vars

\* ------------------------------------------- concurrent respondToRideRequest
Workers == {"w1", "w2"}

\* Ride.findById: the request keeps the document it has read
respondRead(w, d, r, target, status) ==
  /\ \A q \in reqs : q.worker # w
  /\ reqs' = reqs \cup {[worker |-> w, kind |-> "respond",
                          driver |-> d, ride |-> r, target |-> target,
                          status |-> status, doc |-> rides[r], stale |-> FALSE,
                          after |-> {q.worker : q \in {x \in reqs : x.pc = "done"}},
                          pc |-> "read", resp |-> None]}
  /\ UNCHANGED <<userVars, rideVars, ledgerVars, notifs, res>>

\* the rest of the handler: the checks on the document read, the $push on the
\* passenger and ride.save()
respondSave(w) ==
  \E q \in reqs :
    /\ q.worker = w
    /\ q.kind = "respond"
    /\ q.pc = "read"
    /\ RespondWith(q.doc, q.stale, q.driver, q.ride, q.target, q.status)
    /\ reqs' = (reqs \ {q}) \cup {[q EXCEPT !.pc = "done", !.resp = res'.resp]}

\* a ride of u1 with `seats` seats that u2 and u3 have asked to join
\* (createRide, requestRide twice)
AcceptRide(seats) ==
  PreSave(
  [NewRide("u1", seats, "A", "B", [distance |-> 100, fuelEfficiency |-> 10]) EXCEPT
     !.passengers = <<NewPassenger("u2"), NewPassenger("u3")>>])

InitAccept ==
  \E seats \in 1..MaxSeats :
    /\ rides = [r \in RideIds |-> AcceptRide(seats)]
    /\ created = RideIds
    /\ capacity = [r \in RideIds |-> seats]
    /\ ridesAsDriver = [u \in Users |-> IF u = "u1" THEN RideIds ELSE {}]
    /\ ridesAsPassenger = [u \in Users |-> {}]
    /\ balance = [u \in Users |-> 0]
    /\ walletTx = [u \in Users |-> <<>>]
    /\ txs = <<>>
    /\ notifs = <<Note("u1", "ride_request")>>
    /\ res = Response("requestRide", "ok")
    /\ reqs = {}
    /\ environmentalImpact = [u \in Users |-> NoImpact]
    /\ reviews = [u \in Users |-> <<>>]
    /\ rating = [u \in Users |-> NoRating]
    /\ vehicle = [u \in Users |-> Profile]

NextAccept ==
  \/ \E w \in Workers, d \in Drivers, r \in RideIds, target \in Users \ Drivers,
        status \in {"accepted", "rejected"} : respondRead(w, d, r, target, status)
  \/ \E w \in Workers : respondSave(w)
  \/ \E u \in Users, r \in RideIds : requestRide(u, r)
  \/ \E u \in Users, r \in RideIds : cancelRideRequest(u, r)

SpecAccept == InitAccept /\ [][NextAccept]_vars

\* ---------------------------------------------------- concurrent requestRide
\* Ride.findById of requestRide: the request keeps the document it has read
requestRead(w, u, r) ==
  /\ \A q \in reqs : q.worker # w
  /\ reqs' = reqs \cup {[worker |-> w, kind |-> "request",
                          driver |-> None, ride |-> r, target |-> u,
                          status |-> None, doc |-> rides[r], stale |-> FALSE,
                          after |-> {q.worker : q \in {x \in reqs : x.pc = "done"}},
                          pc |-> "read", resp |-> None]}
  /\ UNCHANGED <<userVars, rideVars, ledgerVars, notifs, res>>

\* the rest of requestRide: the checks on the document read, the push and
\* ride.save()
requestSave(w) ==
  \E q \in reqs :
    /\ q.worker = w
    /\ q.kind = "request"
    /\ q.pc = "read"
    /\ RequestWith(q.doc, q.target, q.ride)
    /\ LET bumped == IF res'.resp = "ok" THEN Bump(q.ride) ELSE reqs
       IN reqs' = {x \in bumped : x.worker # w}
                    \cup {[q EXCEPT !.pc = "done", !.resp = res'.resp]}

\* a ride of u1 that nobody has asked to join yet (createRide)
InitRequest ==
  \E seats \in 1..MaxSeats :
    /\ rides = [r \in RideIds |->
                  PreSave(NewRide("u1", seats, "A", "B",
                                  [distance |-> 100, fuelEfficiency |-> 10]))]
    /\ created = RideIds
    /\ capacity = [r \in RideIds |-> seats]
    /\ ridesAsDriver = [u \in Users |-> IF u = "u1" THEN RideIds ELSE {}]
    /\ ridesAsPassenger = [u \in Users |-> {}]
    /\ balance = [u \in Users |-> 0]
    /\ walletTx = [u \in Users |-> <<>>]
    /\ txs = <<>>
    /\ notifs = <<>>
    /\ res = Response("createRide", "ok")
    /\ reqs = {}
    /\ environmentalImpact = [u \in Users |-> NoImpact]
    /\ reviews = [u \in Users |-> <<>>]
    /\ rating = [u \in Users |-> NoRating]
    /\ vehicle = [u \in Users |-> Profile]

NextRequest ==
  \/ \E w \in Workers, u \in Users, r \in RideIds : requestRead(w, u, r)
  \/ \E w \in Workers : requestSave(w)
  \/ \E u \in Users, r \in RideIds : cancelRideRequest(u, r)
  \/ \E d \in Drivers, r \in RideIds, target \in Users, status \in {"accepted", "rejected"} :
       respondToRideRequest(d, r, target, status)

SpecRequest == InitRequest /\ [][NextRequest]_vars

\* ------------------------------------------------- the impact calculator
\* route.distance and vehicle.fuelEfficiency of the rides that get completed
Distances == {0, 100}
Efficiencies == {0, 10}
ImpactTrips == {[distance |-> dist, fuelEfficiency |-> eff] :
                  dist \in Distances, eff \in Efficiencies}

\* a ride of u1 created with one seat per user that u2 and u3 have asked to join
\* and on which the driver has answered some of the requests
\* (createRide, requestRide twice, respondToRideRequest)
ImpactRide(trip, s2, s3) ==
  LET ps == <<[NewPassenger("u2") EXCEPT !.status = s2],
              [NewPassenger("u3") EXCEPT !.status = s3]>>
  IN PreSave([NewRide("u1", Cardinality(Users), "A", "B", trip) EXCEPT
                !.passengers = ps,
                !.availableSeats = @ - Len(SelectSeq(ps, IsAccepted))])

InitImpact ==
  \E trip \in ImpactTrips, s2 \in {"pending", "accepted"},
     s3 \in {"pending", "accepted", "rejected"} :
    /\ rides = [r \in RideIds |-> ImpactRide(trip, s2, s3)]
    /\ created = RideIds
    /\ capacity = [r \in RideIds |-> Cardinality(Users)]
    /\ ridesAsDriver = [u \in Users |-> IF u = "u1" THEN RideIds ELSE {}]
    /\ ridesAsPassenger =
         [u \in Users |-> IF (u = "u2" /\ s2 = "accepted") \/ (u = "u3" /\ s3 = "accepted")
                          THEN RideIds ELSE {}]
    /\ balance = [u \in Users |-> 0]
    /\ walletTx = [u \in Users |-> <<>>]
    /\ txs = <<>>
    /\ notifs = <<>>
    /\ res = Response("respondToRideRequest", "ok")
    /\ reqs = {}
    /\ environmentalImpact = [u \in Users |-> NoImpact]
    /\ reviews = [u \in Users |-> <<>>]
    /\ rating = [u \in Users |-> NoRating]
    /\ vehicle = [u \in Users |-> Profile]

NextImpact ==
  \/ \E d \in Users, r \in RideIds : startRide(d, r)
  \/ \E d \in Users, r \in RideIds : completeRide(d, r)
  \/ \E d \in Drivers, r \in RideIds, target \in Users, status \in {"accepted", "rejected"} :
       respondToRideRequest(d, r, target, status)
  \/ \E u \in Users, r \in RideIds : cancelRideRequest(u, r)

SpecImpact == InitImpact /\ [][NextImpact]_vars

\* ------------------------------------------------------ user.controller.js
\* user.routes.js: role isIn(['driver', 'passenger']), rating isInt({min: 1, max: 5})
Roles == {"driver", "passenger"}
MinRating == 1
MaxRating == 5

\* the ratings and roles of the submitRating requests, valid and invalid
Ratings == {0, 2, 4, 6}
RatingRoles == Roles \cup {"admin"}
Reviewers == {"u3"}
RatedUsers == {"u1", "u2", None}

\* userToRate.reviews.filter(r => r.role === role)
RoleRatings_All(rs, role) == rs

RoleRatings(rs, role) ==
  LET HasRole(rv) == rv.role = role IN Filter(rs, HasRole)

\* ratings.reduce((sum, r) => sum + r.rating, 0)
RECURSIVE TotalRating(_)
TotalRating(rs) ==
  IF rs = <<>> THEN 0 ELSE Head(rs).rating + TotalRating(Tail(rs))

\* rating.asDriver for the role driver, rating.asPassenger otherwise
RatingKey(role) == IF role = "driver" THEN "asDriver" ELSE "asPassenger"

\* all the reviews stored, over all users
RECURSIVE ReviewCount(_)
ReviewCount(us) ==
  IF us = {} THEN 0
  ELSE LET u == CHOOSE x \in us : TRUE IN Len(reviews[u]) + ReviewCount(us \ {u})

\* submitRating: POST /api/users/ratings
submitRating(u, userId, role, value) ==
  IF role \notin Roles \/ value < MinRating \/ value > MaxRating
    THEN Reject("submitRating", "ValidationError")
  ELSE IF userId \notin Users
    THEN Reject("submitRating", "NotFound")
  ELSE LET rs == Append(reviews[userId], [reviewer |-> u, role |-> role, rating |-> value])
           roleRatings == RoleRatings(rs, role)
           totalRating == TotalRating(roleRatings)
       IN /\ ReviewCount(Users) < MaxReviews
          /\ reviews' = [reviews EXCEPT ![userId] = rs]
          /\ rating' = [rating EXCEPT ![userId][RatingKey(role)] =
                          [average |-> RatDiv(Rat(totalRating, 1), Rat(Len(roleRatings), 1)),
                           count |-> Len(roleRatings)]]
          /\ notifs' = <<Note(userId, "rating_received")>>
          /\ res' = Response("submitRating", "ok")
          /\ UNCHANGED <<environmentalImpact, vehicle, rideVars, ledgerVars, reqs>>

NextRating ==
  \E u \in Reviewers, userId \in RatedUsers, role \in RatingRoles, value \in Ratings :
    submitRating(u, userId, role, value)

SpecRating == Init /\ [][NextRating]_vars

\* ================================================================ claims
Live(r) == rides[r].status # "none"

HasPending(ride, u) == \E i \in 1..Len(ride.passengers) :
  ride.passengers[i].user = u /\ ride.passengers[i].status = "pending"

HasAccepted(ride, u) == \E i \in 1..Len(ride.passengers) :
  ride.passengers[i].user = u /\ ride.passengers[i].status = "accepted"

\* C1: for every ride, availableSeats plus the number of accepted passenger
\* entries equals the seat count supplied at creation, in every reachable state.
C1_SeatConservation ==
  \A r \in RideIds :
    Live(r) => rides[r].availableSeats + Len(Accepted(rides[r])) = capacity[r]

\* C2: accepting a pending request on a ride whose availableSeats is 0 always fails
\* with Conflict or InvalidTransition and leaves the ride unchanged, and
\* availableSeats is never below 0.
C2_AcceptAtZeroFails ==
  /\ [][\A d \in Users, r \in RideIds, target \in Users :
          ( /\ Live(r)
            /\ rides[r].driver = d
            /\ rides[r].availableSeats = 0
            /\ HasPending(rides[r], target)
            /\ respondToRideRequest(d, r, target, "accepted") )
          => /\ res'.resp \in {"Conflict", "InvalidTransition"}
             /\ rides' = rides]_vars
  /\ [](\A r \in RideIds : rides[r].availableSeats >= 0)

\* two requests whose reads both came before either save
Interleaved(q1, q2) == q1.worker \notin q2.after /\ q2.worker \notin q1.after

\* C3: two concurrent respondToRideRequest(accepted) calls for two different
\* pending passengers of a ride with availableSeats 1: exactly one succeeds, the
\* other fails with a capacity conflict, and never are both passengers accepted or
\* is availableSeats below 0.
C3_ExactlyOneAccept ==
  \A q1 \in reqs, q2 \in reqs :
    ( /\ q1.worker # q2.worker /\ q1.ride = q2.ride /\ q1.target # q2.target
      /\ q1.pc = "done" /\ q2.pc = "done"
      /\ q1.status = "accepted" /\ q2.status = "accepted"
      /\ Interleaved(q1, q2)
      /\ \A q \in {q1, q2} :
           /\ q.doc.availableSeats = 1
           /\ HasPending(q.doc, q1.target) /\ HasPending(q.doc, q2.target) )
    => /\ \/ q1.resp = "ok" /\ q2.resp = "Conflict"
          \/ q2.resp = "ok" /\ q1.resp = "Conflict"
       /\ ~(HasAccepted(rides[q1.ride], q1.target) /\ HasAccepted(rides[q1.ride], q2.target))
       /\ rides[q1.ride].availableSeats >= 0

\* sum of the amounts of the completed transactions that satisfy Test
RECURSIVE SumCompleted(_, _, _)
SumCompleted(seq, Test(_), i) ==
  IF i > Len(seq) THEN 0
  ELSE (IF seq[i].status = "completed" /\ Test(seq[i]) THEN seq[i].amount ELSE 0)
       + SumCompleted(seq, Test, i + 1)

Received(u) == LET To(t) == t.receiver = u IN SumCompleted(txs, To, 1)
Sent(u) == LET From(t) == t.sender = u IN SumCompleted(txs, From, 1)

\* C4: for every user, wallet.balance equals the sum of the completed transactions
\* received minus the sum of the completed transactions sent.
C4_BalanceIsLedgerSum == \A u \in Users : balance[u] = Received(u) - Sent(u)

FareStatus(ride, u) ==
  LET Mine(p) == p.user = u IN ride.passengers[FindIndex(ride.passengers, Mine)].fare.status

\* C5: a successful wallet initiateRidePayment debits the payer by amount, credits
\* the driver by the same amount, creates exactly one completed ride_payment
\* transaction from payer to driver and marks the payer's fare paid; the sum of the
\* two balances is unchanged.
C5_WalletPayment ==
  [][\A u \in Users, r \in RideIds, amount \in 1..MaxAmount, text \in BOOLEAN :
       (res'.resp = "ok" /\ initiateRidePayment(u, r, amount, text, "wallet"))
       => LET driver == rides[r].driver IN
          /\ driver # u
          /\ balance'[u] = balance[u] - amount
          /\ balance'[driver] = balance[driver] + amount
          /\ balance'[u] + balance'[driver] = balance[u] + balance[driver]
          /\ \A v \in Users \ {u, driver} : balance'[v] = balance[v]
          /\ txs' = Append(txs, Transaction(u, driver, r, amount, "ride_payment",
                                            "completed", "wallet"))
          /\ FareStatus(rides'[r], u) = "paid"]_vars

\* C6: completeRidePayment acts only on a pending transaction: on a completed one
\* it fails with InvalidState (for the sender) and changes no balance and no
\* transaction; a balance changes only in the step that takes the transaction from
\* pending to completed, and a completed transaction never becomes pending again,
\* so the driver is credited at most once per transaction.
C6_CompleteOnlyPending ==
  [][ /\ \A u \in Users, r \in RideIds, id \in 1..MaxTx :
           completeRidePayment(u, r, id)
           => /\ (id <= Len(txs) /\ txs[id].status = "completed")
                 => /\ res'.resp # "ok"
                    /\ txs[id].sender = u => res'.resp = "InvalidState"
                    /\ balance' = balance
                    /\ txs' = txs
              /\ balance' # balance
                 => /\ txs[id].status = "pending"
                    /\ txs'[id].status = "completed"
                    /\ balance' = [balance EXCEPT ![rides[r].driver] = @ + txs[id].amount]
      /\ \A id \in 1..Len(txs) :
           txs[id].status = "completed" => txs'[id].status = "completed" ]_vars

C6_Witness ==
  /\ res = Response("completeRidePayment", "InvalidState")
  /\ txs # <<>>
  /\ \A id \in 1..Len(txs) : txs[id].type = "ride_payment" /\ txs[id].status = "completed"
  /\ balance["u1"] > 0

\* C7: withdrawFunds with amount above the caller's balance fails with
\* InsufficientFunds, creates no transaction and leaves every balance unchanged.
C7_WithdrawInsufficient ==
  [][\A u \in Users, amount \in 1..MaxAmount :
       (withdrawFunds(u, amount) /\ amount > balance[u])
       => /\ res'.resp = "InsufficientFunds"
          /\ txs' = txs
          /\ balance' = balance
          /\ walletTx' = walletTx]_vars

C7_Witness ==
  /\ res = Response("withdrawFunds", "InsufficientFunds")
  /\ \E u \in Users : balance[u] > 0 /\ balance[u] < MaxAmount

\* C8: a wallet initiateRidePayment with amount above the payer's balance fails and
\* leaves every balance, the ride (so the fare status) and the transactions
\* unchanged.
C8_PaymentInsufficient ==
  [][\A u \in Users, r \in RideIds, amount \in 1..MaxAmount, text \in BOOLEAN :
       (amount > balance[u] /\ initiateRidePayment(u, r, amount, text, "wallet"))
       => /\ res'.resp # "ok"
          /\ HasAccepted(rides[r], u) /\ FareStatus(rides[r], u) # "paid"
             => res'.resp = "InsufficientFunds"
          /\ balance' = balance
          /\ rides' = rides
          /\ txs' = txs]_vars

C8_Witness ==
  /\ res = Response("initiateRidePayment", "InsufficientFunds")
  /\ \E r \in RideIds : Live(r) /\ HasAccepted(rides[r], "u2") /\ balance["u2"] < MaxAmount

StatusEdges ==
  {<<"scheduled", "in_progress">>, <<"in_progress", "completed">>,
   <<"scheduled", "cancelled">>, <<"in_progress", "cancelled">>}

\* C9: a ride's status changes only along scheduled -> in_progress,
\* in_progress -> completed, scheduled -> cancelled and in_progress -> cancelled,
\* so a completed or cancelled ride never changes status again.
C9_StatusEdges ==
  [][\A r \in RideIds :
       (Live(r) /\ rides'[r].status # "none" /\ rides'[r].status # rides[r].status)
       => <<rides[r].status, rides'[r].status>> \in StatusEdges]_vars

\* C10: startRide succeeds only from scheduled, setting status in_progress and
\* currentLocation to the start location; the driver's startRide on a ride that is
\* in_progress fails with InvalidTransition, and leaves the ride unchanged.
C10_StartOnlyScheduled ==
  [][\A d \in Users, r \in RideIds :
       startRide(d, r)
       => /\ res'.resp = "ok"
             => /\ rides[r].status = "scheduled"
                /\ rides'[r].status = "in_progress"
                /\ rides'[r].currentLocation = rides[r].startLocation
          /\ rides[r].status = "in_progress"
             => /\ res'.resp # "ok"
                /\ rides[r].driver = d => res'.resp = "InvalidTransition"
                /\ rides' = rides]_vars

C10_Witness ==
  /\ res = Response("startRide", "InvalidTransition")
  /\ \E r \in RideIds : rides[r].status = "in_progress" /\ rides[r].currentLocation = "A"

\* status of the first passenger entry of user u on the ride, "none" without one
EntryStatus(ride, u) ==
  LET Mine(p) == p.user = u
      idx == FindIndex(ride.passengers, Mine)
  IN IF idx = 0 THEN "none" ELSE ride.passengers[idx].status

\* number of passenger entries of user u on the ride
Entries(ride, u) ==
  LET Mine(p) == p.user = u IN Len(Filter(ride.passengers, Mine))

\* C11: respondToRideRequest by the driver fails with NotFound and changes nothing
\* when the target has no pending entry; on accepted the pending entry becomes
\* accepted, availableSeats drops by exactly 1 and the ride is added to the
\* target's ridesAsPassenger; on rejected the entry becomes rejected and
\* availableSeats is unchanged.
C11_RespondContract ==
  [][\A d \in Users, r \in RideIds, target \in Users :
       (Live(r) /\ rides[r].driver = d)
       => /\ \A status \in {"accepted", "rejected"} :
               (respondToRideRequest(d, r, target, status) /\ ~HasPending(rides[r], target))
               => /\ res'.resp = "NotFound"
                  /\ UNCHANGED <<rides, ridesAsPassenger>>
          /\ (respondToRideRequest(d, r, target, "accepted") /\ HasPending(rides[r], target))
             => /\ EntryStatus(rides'[r], target) = "accepted"
                /\ rides'[r].availableSeats = rides[r].availableSeats - 1
                /\ r \in ridesAsPassenger'[target]
          /\ (respondToRideRequest(d, r, target, "rejected") /\ HasPending(rides[r], target))
             => /\ EntryStatus(rides'[r], target) = "rejected"
                /\ rides'[r].availableSeats = rides[r].availableSeats]_vars

PendingCount(ride) ==
  LET IsPending(p) == p.status = "pending" IN Len(Filter(ride.passengers, IsPending))

\* C12: requestRide on an existing ride fails with Conflict and leaves the ride
\* unchanged if the requester is the driver, already has a passenger entry (in any
\* status) or availableSeats <= 0; otherwise it appends exactly one pending entry
\* for the requester and leaves availableSeats unchanged, whatever the number of
\* pending entries already is.
C12_RequestContract ==
  [][\A u \in Users, r \in RideIds :
       (requestRide(u, r) /\ Live(r))
       => IF \/ rides[r].driver = u
             \/ Entries(rides[r], u) > 0
             \/ rides[r].availableSeats <= 0
          THEN /\ res'.resp = "Conflict"
               /\ rides' = rides
          ELSE /\ res'.resp = "ok"
               /\ Len(rides'[r].passengers) = Len(rides[r].passengers) + 1
               /\ SubSeq(rides'[r].passengers, 1, Len(rides[r].passengers))
                    = rides[r].passengers
               /\ rides'[r].passengers[Len(rides'[r].passengers)].user = u
               /\ rides'[r].passengers[Len(rides'[r].passengers)].status = "pending"
               /\ rides'[r].availableSeats = rides[r].availableSeats
               /\ rides'[r].status = rides[r].status]_vars

\* a request accepted although more requests are pending than seats remain
C12_Witness ==
  /\ res = Response("requestRide", "ok")
  /\ \E r \in RideIds : Live(r) /\ PendingCount(rides[r]) > rides[r].availableSeats

\* C13: cancelRideRequest on an existing ride fails with NotFound if the caller has
\* no passenger entry; otherwise it removes the caller's entry, and it adds 1 to
\* availableSeats and removes the ride from the caller's ridesAsPassenger exactly
\* when the removed entry was accepted.
C13_CancelRequestContract ==
  [][\A u \in Users, r \in RideIds :
       (cancelRideRequest(u, r) /\ Live(r))
       => IF Entries(rides[r], u) = 0
          THEN /\ res'.resp = "NotFound"
               /\ UNCHANGED <<rides, ridesAsPassenger>>
          ELSE /\ Entries(rides'[r], u) = Entries(rides[r], u) - 1
               /\ Len(rides'[r].passengers) = Len(rides[r].passengers) - 1
               /\ IF EntryStatus(rides[r], u) = "accepted"
                  THEN /\ rides'[r].availableSeats = rides[r].availableSeats + 1
                       /\ r \notin ridesAsPassenger'[u]
                  ELSE /\ rides'[r].availableSeats = rides[r].availableSeats
                       /\ ridesAsPassenger' = ridesAsPassenger]_vars

\* the passenger entries of the ride that do not belong to user u, in order
Others(ride, u) ==
  LET NotMine(p) == p.user # u IN Filter(ride.passengers, NotMine)

\* C14: cancelRide called by an accepted passenger (not the driver) on a scheduled
\* or in_progress ride succeeds, sets only that passenger's entry to cancelled,
\* adds 1 to availableSeats, removes the ride from the passenger's
\* ridesAsPassenger and leaves the ride's status and every other entry unchanged.
C14_PassengerCancel ==
  [][\A u \in Users, r \in RideIds :
       ( /\ cancelRide(u, r)
         /\ Live(r)
         /\ rides[r].driver # u
         /\ HasAccepted(rides[r], u)
         /\ rides[r].status \in {"scheduled", "in_progress"} )
       => /\ res'.resp = "ok"
          /\ EntryStatus(rides'[r], u) = "cancelled"
          /\ rides'[r].availableSeats = rides[r].availableSeats + 1
          /\ r \notin ridesAsPassenger'[u]
          /\ rides'[r].status = rides[r].status
          /\ Others(rides'[r], u) = Others(rides[r], u)]_vars

\* number of notifications of the given type that the latest request created for u
NotesFor(ns, u, type) ==
  LET Mine(n) == n.recipient = u /\ n.type = type IN Len(Filter(ns, Mine))

\* C15: cancelRide called by the driver on a scheduled or in_progress ride sets the
\* status to cancelled, records reason and time, removes the ride from
\* ridesAsPassenger of every passenger with an accepted entry and creates exactly
\* one ride_cancelled notification for each of them and none for anyone else.
C15_DriverCancel ==
  [][\A d \in Users, r \in RideIds :
       ( /\ cancelRide(d, r)
         /\ Live(r)
         /\ rides[r].driver = d
         /\ rides[r].status \in {"scheduled", "in_progress"} )
       => /\ rides'[r].status = "cancelled"
          /\ rides'[r].cancelled
          /\ \A u \in Users :
               IF HasAccepted(rides[r], u)
               THEN /\ r \notin ridesAsPassenger'[u]
                    /\ NotesFor(notifs', u, "ride_cancelled") = 1
               ELSE NotesFor(notifs', u, "ride_cancelled") = 0]_vars

\* C16: completeRide succeeds only when the ride is in_progress, and then sets the
\* status to completed and currentLocation to the end location; on a scheduled,
\* completed or cancelled ride it fails and changes neither the ride nor any
\* user's environmental-impact accumulators.
C16_CompleteOnlyInProgress ==
  [][\A d \in Users, r \in RideIds :
       (completeRide(d, r) /\ Live(r))
       => /\ res'.resp = "ok"
             => /\ rides[r].status = "in_progress"
                /\ rides'[r].status = "completed"
                /\ rides'[r].currentLocation = rides[r].endLocation
          /\ rides[r].status \in {"scheduled", "completed", "cancelled"}
             => /\ res'.resp # "ok"
                /\ rides' = rides
                /\ environmentalImpact' = environmentalImpact]_vars

\* a second completeRide refused on a ride that the first one completed
C16_Witness ==
  /\ res = Response("completeRide", "InvalidTransition")
  /\ \E r \in RideIds :
       /\ rides[r].status = "completed"
       /\ rides[r].currentLocation = rides[r].endLocation

\* the accumulators are numbers (not NaN)
IsNumber(impact) ==
  /\ impact.co2Saved[2] # 0
  /\ impact.fuelSaved[2] # 0
  /\ impact.treesEquivalent[2] # 0

\* C17: completeRide computes fuelSaved = distance * acceptedCount / efficiency
\* (efficiency 15 when absent), co2Saved = fuelSaved * 2.3 and treesEquivalent =
\* co2Saved / 22 over the entries accepted at completion; the driver's accumulators
\* grow by the full amounts, each accepted passenger's by total / acceptedCount,
\* and the other users are unchanged (distance 100, efficiency 10 and 2 accepted
\* passengers give 20, 46 and 23/11, each passenger receiving half).
C17_ImpactFormula ==
  [][\A d \in Users, r \in RideIds :
       (completeRide(d, r) /\ res'.resp = "ok")
       => LET ride == rides[r]
              n == Len(Accepted(ride))
              eff == IF ride.fuelEfficiency = 0 THEN 15 ELSE ride.fuelEfficiency
              fuel == Rat(ride.distance * n, eff)
              co2 == Rat(ride.distance * n * 23, eff * 10)
              trees == Rat(ride.distance * n * 23, eff * 220)
              Grown(u, k) ==
                /\ environmentalImpact'[u].fuelSaved
                     = RatAdd(environmentalImpact[u].fuelSaved, Rat(fuel[1], fuel[2] * k))
                /\ environmentalImpact'[u].co2Saved
                     = RatAdd(environmentalImpact[u].co2Saved, Rat(co2[1], co2[2] * k))
                /\ environmentalImpact'[u].treesEquivalent
                     = RatAdd(environmentalImpact[u].treesEquivalent,
                              Rat(trees[1], trees[2] * k))
          IN /\ Grown(d, 1)
             /\ \A u \in Users \ {d} :
                  IF HasAccepted(ride, u) THEN Grown(u, n)
                  ELSE environmentalImpact'[u] = environmentalImpact[u]
             /\ (ride.distance = 100 /\ ride.fuelEfficiency = 10 /\ n = 2
                 /\ environmentalImpact[d] = NoImpact)
                => environmentalImpact'[d] =
                     [co2Saved |-> <<46, 1>>, fuelSaved |-> <<20, 1>>,
                      treesEquivalent |-> <<23, 11>>]]_vars

\* the completed ride of the example: the driver holds 46, 20 and 23/11, each of
\* the two passengers half of that
C17_Witness ==
  /\ res = Response("completeRide", "ok")
  /\ environmentalImpact["u1"] =
       [co2Saved |-> <<46, 1>>, fuelSaved |-> <<20, 1>>, treesEquivalent |-> <<23, 11>>]
  /\ \A u \in {"u2", "u3"} :
       environmentalImpact[u] =
         [co2Saved |-> <<23, 1>>, fuelSaved |-> <<10, 1>>, treesEquivalent |-> <<23, 22>>]

\* C18: completing a ride that has no accepted passenger succeeds and adds zero to
\* the driver's co2Saved, fuelSaved and treesEquivalent: no division by zero
\* happens and no user's accumulators change.
C18_ZeroPassengers ==
  [][\A d \in Users, r \in RideIds :
       ( /\ completeRide(d, r)
         /\ rides[r].driver = d
         /\ rides[r].status = "in_progress"
         /\ Len(Accepted(rides[r])) = 0 )
       => /\ res'.resp = "ok"
          /\ environmentalImpact' = environmentalImpact
          /\ \A u \in Users : IsNumber(environmentalImpact'[u])]_vars

\* a ride without fuel efficiency and without accepted passengers, just completed
C18_Witness ==
  /\ res = Response("completeRide", "ok")
  /\ \E r \in RideIds :
       /\ rides[r].status = "completed"
       /\ rides[r].fuelEfficiency = 0
       /\ rides[r].distance = 100
       /\ Len(Accepted(rides[r])) = 0
  /\ \A u \in Users : environmentalImpact[u] = NoImpact

\* C19: after every successful submitRating for a user and a role, the review is
\* appended, the user's count for the role is the number of stored reviews with
\* that role and the average is their arithmetic mean (ratings 4 then 2 give
\* average 3 and count 2); the rating of the other role and the ratings of the
\* other users are unchanged.
C19_RatingAggregate ==
  [][\A u \in Users, userId \in Users, role \in Roles, value \in MinRating..MaxRating :
       ( /\ res'.resp = "ok"
         /\ reviews'[userId] # reviews[userId]
         /\ submitRating(u, userId, role, value) )
       => LET WithRole(rv) == rv.role = role
              mine == SelectSeq(reviews'[userId], WithRole)
              other == CHOOSE o \in Roles : o # role
              agg == rating'[userId][RatingKey(role)]
          IN /\ reviews'[userId] = Append(reviews[userId],
                                          [reviewer |-> u, role |-> role, rating |-> value])
             /\ agg.count = Len(mine)
             /\ agg.average[2] # 0
             /\ agg.average[1] * Len(mine) = TotalRating(mine) * agg.average[2]
             /\ rating'[userId][RatingKey(other)] = rating[userId][RatingKey(other)]
             /\ \A v \in Users \ {userId} : rating'[v] = rating[v] /\ reviews'[v] = reviews[v]
             /\ (Len(mine) = 2 /\ mine[1].rating = 4 /\ mine[2].rating = 2)
                => agg = [average |-> <<3, 1>>, count |-> 2]]_vars

\* u1 rated 4 and then 2 as a driver, with a passenger review in between
C19_Witness ==
  /\ res = Response("submitRating", "ok")
  /\ Len(reviews["u1"]) = 3
  /\ reviews["u1"][1].rating = 4 /\ reviews["u1"][1].role = "driver"
  /\ reviews["u1"][2].role = "passenger"
  /\ reviews["u1"][3].rating = 2 /\ reviews["u1"][3].role = "driver"
  /\ rating["u1"].asDriver = [average |-> <<3, 1>>, count |-> 2]

\* C20: in every reachable state a ride holds at most one passenger entry per
\* user, also when two requestRide calls of the same user on the same ride both
\* read the ride before either saves.
C20_OneEntryPerUser ==
  \A r \in RideIds, u \in Users : Entries(rides[r], u) <= 1

\* C21: a successful addFundsToWallet(amount) creates exactly one completed
\* wallet_topup transaction of the caller, raises the caller's balance by exactly
\* amount (so the new balance is at least amount), puts the transaction in the
\* caller's wallet history and changes no other user's balance.
C21_TopUp ==
  [][\A u \in Payers, amount \in 1..MaxAmount, text \in BOOLEAN :
       (res'.resp = "ok" /\ addFundsToWallet(u, amount, text, "card"))
       => /\ txs' = Append(txs, Transaction(u, u, None, amount, "wallet_topup",
                                            "completed", "card"))
          /\ balance'[u] = balance[u] + amount
          /\ balance'[u] >= amount
          /\ walletTx'[u] = Append(walletTx[u], Len(txs'))
          /\ \A v \in Users \ {u} : balance'[v] = balance[v]]_vars

\* the completed ride_payment transactions from u to the driver of ride r
Payments(u, r) ==
  {i \in 1..Len(txs) : /\ txs[i].sender = u /\ txs[i].receiver = rides[r].driver
                       /\ txs[i].ride = r /\ txs[i].type = "ride_payment"
                       /\ txs[i].status = "completed"}

\* C23: requestRefund succeeds only if a completed ride_payment transaction from
\* the caller to the ride's driver for that ride exists; a caller who is an
\* accepted passenger with a paid fare and such a transaction gets the refund:
\* one new pending refund transaction from the driver to the caller with the
\* same amount, and no wallet balance, fare status or existing transaction changes.
C23_Refund ==
  [][\A u \in Users, r \in RideIds :
       (res'.op = "requestRefund" /\ requestRefund(u, r))
       => /\ res'.resp = "ok" => Payments(u, r) # {}
          /\ (Payments(u, r) # {} /\ HasAccepted(rides[r], u)
              /\ FareStatus(rides[r], u) = "paid")
             => /\ res'.resp = "ok"
                /\ \E i \in Payments(u, r) :
                     txs' = Append(txs, Transaction(rides[r].driver, u, r, txs[i].amount,
                                     "refund", "pending", txs[i].paymentMethod))
                /\ UNCHANGED <<balance, rides>>]_vars

\* ------------------------------------------------ concurrent wallet requests
\* The payment handlers await between their reads and their saves, so two
\* requests interleave at these points. user.save() writes the balance computed
\* from the document the request read ($set of wallet.balance) and pushes the
\* transaction id ($push on wallet.transactions, no version check).
WalletRequest(w, kind, u, r, amount, pc) ==
  [worker |-> w, kind |-> kind, user |-> u, ride |-> r, amount |-> amount,
   bal |-> balance[u], tx |-> Len(txs) + 1, pc |-> pc]

Finish(q) == reqs' = {x \in reqs : x.worker # q.worker}

Move(q, pc) == reqs' = {x \in reqs : x.worker # q.worker} \cup {[q EXCEPT !.pc = pc]}

\* addFundsToWallet up to User.findById: the transaction is created, the user read
topUpRead(w, u, amount) ==
  /\ \A q \in reqs : q.worker # w
  /\ Len(txs) < MaxTx
  /\ txs' = Append(txs, Transaction(u, u, None, amount, "wallet_topup", "completed", "card"))
  /\ reqs' = reqs \cup {WalletRequest(w, "topup", u, None, amount, "save")}
  /\ UNCHANGED <<userVars, rideVars, balance, walletTx, notifs, res>>

\* the rest of addFundsToWallet: balance += amount, push, user.save()
topUpSave(w) ==
  \E q \in reqs :
    /\ q.worker = w /\ q.kind = "topup"
    /\ balance' = Credit([balance EXCEPT ![q.user] = q.bal], q.user, q.amount, FALSE)
    /\ walletTx' = [walletTx EXCEPT ![q.user] = Append(@, q.tx)]
    /\ Finish(q)
    /\ notifs' = <<>>
    /\ res' = Response("addFundsToWallet", "ok")
    /\ UNCHANGED <<userVars, rideVars, txs>>

\* withdrawFunds up to Transaction.create: the user is read, the balance checked
\* and the pending transaction created
withdrawRead(w, u, amount) ==
  /\ \A q \in reqs : q.worker # w
  /\ IF InsufficientBalance(u, amount) THEN Reject("withdrawFunds", "InsufficientFunds")
     ELSE /\ Len(txs) < MaxTx
          /\ txs' = Append(txs, Transaction(u, u, None, amount, "wallet_withdrawal",
                                            "pending", "bank_transfer"))
          /\ reqs' = reqs \cup {WalletRequest(w, "withdraw", u, None, amount, "save")}
          /\ UNCHANGED <<userVars, rideVars, balance, walletTx, notifs, res>>

\* the rest of withdrawFunds: balance -= amount, push, user.save()
withdrawSave(w) ==
  \E q \in reqs :
    /\ q.worker = w /\ q.kind = "withdraw"
    /\ balance' = [balance EXCEPT ![q.user] = q.bal - q.amount]
    /\ walletTx' = [walletTx EXCEPT ![q.user] = Append(@, q.tx)]
    /\ Finish(q)
    /\ notifs' = <<>>
    /\ res' = Response("withdrawFunds", "ok")
    /\ UNCHANGED <<userVars, rideVars, txs>>

\* initiateRidePayment (wallet) up to Transaction.create: the ride and the payer
\* are read and checked, the completed transaction is created
payCreate(w, u, r, amount) ==
  LET ride == rides[r]
      MineAccepted(p) == p.user = u /\ p.status = "accepted"
      idx == FindIndex(ride.passengers, MineAccepted)
  IN
  /\ \A q \in reqs : q.worker # w
  /\ IF ride.status = "none" THEN Reject("initiateRidePayment", "NotFound")
     ELSE IF idx = 0 THEN Reject("initiateRidePayment", "Unauthorized")
     ELSE IF ride.passengers[idx].fare.status = "paid"
       THEN Reject("initiateRidePayment", "InvalidState")
     ELSE IF InsufficientWalletBalance(u, amount)
       THEN Reject("initiateRidePayment", "InsufficientFunds")
     ELSE /\ Len(txs) < MaxTx
          /\ txs' = Append(txs, Transaction(u, ride.driver, r, amount,
                                            "ride_payment", "completed", "wallet"))
          /\ reqs' = reqs \cup {WalletRequest(w, "pay", u, r, amount, "debit")}
          /\ UNCHANGED <<userVars, rideVars, balance, walletTx, notifs, res>>

\* balance -= amount, push, user.save() of the payer
payDebit(w) ==
  \E q \in reqs :
    /\ q.worker = w /\ q.kind = "pay" /\ q.pc = "debit"
    /\ balance' = [balance EXCEPT ![q.user] = q.bal - q.amount]
    /\ walletTx' = [walletTx EXCEPT ![q.user] = Append(@, q.tx)]
    /\ Move(q, "driver")
    /\ UNCHANGED <<userVars, rideVars, txs, notifs, res>>

\* User.findById(ride.driver)
payDriverRead(w) ==
  \E q \in reqs :
    /\ q.worker = w /\ q.kind = "pay" /\ q.pc = "driver"
    /\ Move([q EXCEPT !.bal = balance[rides[q.ride].driver]], "credit")
    /\ UNCHANGED <<userVars, rideVars, ledgerVars, notifs, res>>

\* balance += amount, push, driver.save()
payCredit(w) ==
  \E q \in reqs :
    LET driver == rides[q.ride].driver IN
    /\ q.worker = w /\ q.kind = "pay" /\ q.pc = "credit"
    /\ balance' = Credit([balance EXCEPT ![driver] = q.bal], driver, q.amount, FALSE)
    /\ walletTx' = [walletTx EXCEPT ![driver] = Append(@, q.tx)]
    /\ Move(q, "ride")
    /\ UNCHANGED <<userVars, rideVars, txs, notifs, res>>

\* the fare is set paid, ride.save(), the driver is notified
payRide(w) ==
  \E q \in reqs :
    LET ride == rides[q.ride]
        MineAccepted(p) == p.user = q.user /\ p.status = "accepted"
        idx == FindIndex(ride.passengers, MineAccepted)
    IN
    /\ q.worker = w /\ q.kind = "pay" /\ q.pc = "ride"
    /\ rides' = [rides EXCEPT ![q.ride] = PreSave(
                   [@ EXCEPT !.passengers[idx].fare =
                               [amount |-> q.amount, status |-> "paid"]])]
    /\ Finish(q)
    /\ notifs' = <<Note(ride.driver, "payment_received")>>
    /\ res' = Response("initiateRidePayment", "ok")
    /\ UNCHANGED <<userVars, created, capacity, ridesAsDriver, ridesAsPassenger,
                   ledgerVars>>

\* an awaited call of initiateRidePayment rejects (the database is unreachable):
\* the catch block hands the error on, nothing written so far is undone
payFail(w) ==
  \E q \in reqs :
    /\ q.worker = w /\ q.kind = "pay"
    /\ Finish(q)
    /\ notifs' = <<>>
    /\ res' = Response("initiateRidePayment", "Error")
    /\ UNCHANGED <<userVars, rideVars, ledgerVars>>

NextWallet ==
  \/ \E w \in Workers, u \in Payers, amount \in 1..MaxAmount : topUpRead(w, u, amount)
  \/ \E w \in Workers : topUpSave(w)
  \/ \E w \in Workers, u \in Payers, amount \in 1..MaxAmount : withdrawRead(w, u, amount)
  \/ \E w \in Workers : withdrawSave(w)
  \/ \E w \in Workers, u \in Users, r \in RideIds, amount \in 1..MaxAmount :
       payCreate(w, u, r, amount)
  \/ \E w \in Workers : payDebit(w)
  \/ \E w \in Workers : payDriverRead(w)
  \/ \E w \in Workers : payCredit(w)
  \/ \E w \in Workers : payRide(w)
  \/ \E w \in Workers : payFail(w)

SpecWallet == InitLedger /\ [][NextWallet]_vars

\* the amount by which transaction i has changed the balance of u, given the
\* saves recorded in u's wallet history
Applied(u, i) ==
  LET t == txs[i]
      Mine(j) == walletTx[u][j] = i
      n == Cardinality({j \in 1..Len(walletTx[u]) : Mine(j)})
  IN IF n = 0 THEN 0
     ELSE IF t.type = "wallet_topup" THEN t.amount
     ELSE IF t.type = "wallet_withdrawal" THEN -t.amount
     ELSE IF t.receiver = u THEN t.amount ELSE -t.amount

RECURSIVE AppliedSum(_, _)
AppliedSum(u, n) == IF n = 0 THEN 0 ELSE AppliedSum(u, n - 1) + Applied(u, n)

RECURSIVE Withdrawn(_, _)
Withdrawn(u, n) ==
  IF n = 0 THEN 0
  ELSE Withdrawn(u, n - 1)
       + (IF txs[n].type = "wallet_withdrawal" /\ txs[n].sender = u
             /\ Applied(u, n) # 0 THEN txs[n].amount ELSE 0)

RECURSIVE ToppedUp(_, _)
ToppedUp(u, n) ==
  IF n = 0 THEN 0
  ELSE ToppedUp(u, n - 1)
       + (IF txs[n].receiver = u /\ txs[n].type \in {"wallet_topup", "ride_payment"}
             /\ Applied(u, n) # 0 THEN txs[n].amount ELSE 0)

C24_PaymentAtomic ==
  \A i \in 1..Len(txs) :
    (txs[i].type = "ride_payment" /\ txs[i].paymentMethod = "wallet"
     /\ txs[i].status = "completed")
    => /\ Applied(txs[i].sender, i) = -txs[i].amount
       /\ Applied(txs[i].receiver, i) = txs[i].amount

\* C25: no balance mutation of a wallet is lost when requests interleave: each
\* balance equals the initial balance (0) plus the credits minus the debits of the
\* saves made on that wallet.
C25_NoLostUpdate == \A u \in Users : balance[u] = AppliedSum(u, Len(txs))

\* C26: an operation on a ride in a status that does not allow it is rejected and
\* leaves the ride unchanged: updateRideLocation on a ride that is not
\* in_progress, updateRide on an in_progress or completed ride, deleteRide on an
\* in_progress ride; the driver gets InvalidTransition.
C26_IllegalStatusRejected ==
  [][\A r \in RideIds :
       /\ (Live(r) /\ rides[r].status # "in_progress" /\ res'.op = "updateRideLocation")
          => \A d \in Users, loc \in Locs :
               updateRideLocation(d, r, loc)
               => /\ res'.resp # "ok" /\ UNCHANGED rides
                  /\ rides[r].driver = d => res'.resp = "InvalidTransition"
       /\ (rides[r].status \in {"in_progress", "completed"} /\ res'.op = "updateRide")
          => \A d \in Users, body \in UpdateBodies :
               updateRide(d, r, body)
               => /\ res'.resp # "ok" /\ UNCHANGED rides
                  /\ rides[r].driver = d => res'.resp = "InvalidTransition"
       /\ (rides[r].status = "in_progress" /\ res'.op = "deleteRide")
          => \A d \in Users :
               deleteRide(d, r)
               => /\ res'.resp # "ok" /\ UNCHANGED rides
                  /\ rides[r].driver = d => res'.resp = "InvalidTransition"]_vars

C26_Witness ==
  \E r \in RideIds :
    /\ rides[r].status = "completed"
    /\ res = Response("updateRide", "InvalidTransition")

\* a ride that startRide has taken to in_progress at some time: only startRide
\* and updateRideLocation (in_progress only) write currentLocation
HasStarted(ride) == ride.status # "none" /\ ride.currentLocation # Origin

\* C27: a ride that has ever reached in_progress is never hard-deleted, whatever
\* its status is now (in_progress, completed, cancelled): no step removes its
\* document.
C27_StartedNeverDeleted ==
  [][\A r \in RideIds : HasStarted(rides[r]) => rides'[r].status # "none"]_vars

\* C28: a successful deleteRide removes the ride from the driver's ridesAsDriver
\* and from the ridesAsPassenger of its accepted passengers, so that after the
\* deletion no user's ride list refers to the ride.
C28_DeleteUnlinks ==
  [][\A d \in Users, r \in RideIds :
       (res'.op = "deleteRide" /\ res'.resp = "ok" /\ deleteRide(d, r))
       => \A u \in Users : r \notin ridesAsDriver'[u] /\ r \notin ridesAsPassenger'[u]]_vars

\* ------------------------------------------------ vehicle profile and rides
\* updateVehicleDetails: PUT /api/users/vehicle, User.findByIdAndUpdate with
\* { vehicle: req.body }
updateVehicleDetails(u, fuelEfficiency) ==
  /\ vehicle' = [vehicle EXCEPT ![u] = [fuelEfficiency |-> fuelEfficiency]]
  /\ notifs' = <<>>
  /\ res' = Response("updateVehicleDetails", "ok")
  /\ UNCHANGED <<environmentalImpact, ratingVars, rideVars, ledgerVars, reqs>>

\* fuelEfficiency of the updateVehicleDetails requests
ProfileEfficiencies == {10, 20}

\* createRide bodies without and with a status field
VehicleTrips == {[distance |-> 100, fuelEfficiency |-> 10, status |-> s] :
                   s \in {None, "completed"}}

NextVehicle ==
  \/ \E u \in Drivers, seats \in 1..MaxSeats, route \in Routes, trip \in VehicleTrips :
       createRide(u, seats, route[1], route[2], trip)
  \/ \E u \in Drivers, e \in ProfileEfficiencies : updateVehicleDetails(u, e)
  \/ \E u \in Users, r \in RideIds : requestRide(u, r)
  \/ \E d \in Users, r \in RideIds, target \in Users, status \in {"accepted", "rejected"} :
       respondToRideRequest(d, r, target, status)
  \/ \E d \in Users, r \in RideIds : startRide(d, r)
  \/ \E d \in Users, r \in RideIds : completeRide(d, r)

SpecVehicle == Init /\ [][NextVehicle]_vars

\* C29: createRide produces a ride with status scheduled, no passengers, the
\* supplied availableSeats, the caller as driver and the vehicle of the caller's
\* profile, and puts it on the caller's ridesAsDriver; updateVehicleDetails changes
\* no ride; completeRide computes the impact from the ride's own vehicle snapshot.
C29_CreateSnapshot ==
  [][/\ \A u \in Drivers, seats \in 1..MaxSeats, route \in Routes, trip \in VehicleTrips :
          (res'.op = "createRide" /\ res'.resp = "ok"
           /\ createRide(u, seats, route[1], route[2], trip))
          => \E r \in RideIds :
               /\ rides[r].status = "none"
               /\ rides'[r].status = "scheduled"
               /\ rides'[r].passengers = <<>>
               /\ rides'[r].availableSeats = seats
               /\ rides'[r].driver = u
               /\ rides'[r].fuelEfficiency = vehicle[u].fuelEfficiency
               /\ r \in ridesAsDriver'[u]
     /\ res'.op = "updateVehicleDetails" => UNCHANGED rides
     /\ \A d \in Users, r \in RideIds :
          (res'.op = "completeRide" /\ res'.resp = "ok" /\ completeRide(d, r))
          => environmentalImpact'[d] = AddImpact(environmentalImpact[d], TripImpact(rides[r]))]_vars

\* ------------------------------------------------ rides and their payments
\* the ride handlers and the payment handlers on the ride of u1 with u2 accepted
\* and u3 pending, every user calling every handler
\* the updateRide bodies that set a field
AuthBodies == {body \in UpdateBodies : body.field # "$inc"}

NextAuth ==
  \/ \E d \in Users, r \in RideIds, target \in Users, status \in {"accepted", "rejected"} :
       respondToRideRequest(d, r, target, status)
  \/ \E d \in Users, r \in RideIds : startRide(d, r)
  \/ \E d \in Users, r \in RideIds, loc \in Locs : updateRideLocation(d, r, loc)
  \/ \E d \in Users, r \in RideIds : completeRide(d, r)
  \/ \E u \in Users, r \in RideIds : cancelRide(u, r)
  \/ \E d \in Users, r \in RideIds, body \in AuthBodies : updateRide(d, r, body)
  \/ \E d \in Users, r \in RideIds : deleteRide(d, r)
  \/ \E u \in Users, r \in RideIds : initiateRidePayment(u, r, MaxAmount, FALSE, "cash")
  \/ \E u \in Users, r \in RideIds, transactionId \in 1..MaxTx :
       completeRidePayment(u, r, transactionId)

SpecAuth == InitLedger /\ [][NextAuth]_vars

\* the request is answered Unauthorized and no ride, transaction or wallet changes
Denied == res'.resp = "Unauthorized" /\ UNCHANGED <<rides, txs, balance, walletTx>>

\* C30: startRide, completeRide, updateRideLocation, respondToRideRequest,
\* updateRide and deleteRide called by a user who is not the ride's driver,
\* cancelRide called by a user who is neither the driver nor an accepted passenger,
\* and completeRidePayment called by a user who is not the transaction's sender
\* fail with Unauthorized and leave rides, transactions and wallets unchanged.
C30_Unauthorized ==
  [][\A u \in Users, r \in RideIds :
       /\ (Live(r) /\ rides[r].driver # u)
          => /\ (res'.op = "startRide" /\ startRide(u, r)) => Denied
             /\ (res'.op = "completeRide" /\ completeRide(u, r)) => Denied
             /\ res'.op = "updateRideLocation"
                => \A loc \in Locs : updateRideLocation(u, r, loc) => Denied
             /\ res'.op = "respondToRideRequest"
                => \A target \in Users, status \in {"accepted", "rejected"} :
                     respondToRideRequest(u, r, target, status) => Denied
             /\ res'.op = "updateRide"
                => \A body \in AuthBodies : updateRide(u, r, body) => Denied
             /\ (res'.op = "deleteRide" /\ deleteRide(u, r)) => Denied
             /\ (res'.op = "cancelRide" /\ ~HasAccepted(rides[r], u) /\ cancelRide(u, r))
                => Denied
       /\ res'.op = "completeRidePayment"
          => \A id \in 1..Len(txs) :
               (txs[id].sender # u /\ completeRidePayment(u, r, id)) => Denied]_vars

C30_Witness ==
  /\ res = Response("completeRidePayment", "Unauthorized")
  /\ \E i \in 1..Len(txs) : txs[i].status = "pending" /\ txs[i].type = "ride_payment"
  /\ \E r \in RideIds : Live(r)

\* C31: every successful transition of the ledger and of the ride (top-up,
\* withdrawal, ride payment, payment completion, refund request, delete) records
\* a Notification, and every Notification recorded is addressed to a user.
C31_TransitionNotifies ==
  [][res'.resp = "ok"
     => /\ Len(notifs') >= 1
        /\ \A i \in 1..Len(notifs') : notifs'[i].recipient \in Users]_vars

\* the completed ride_payment transactions of passenger u for ride r
CompletedPayments(u, r) ==
  {i \in 1..Len(txs) : /\ txs[i].sender = u /\ txs[i].ride = r
                       /\ txs[i].type = "ride_payment" /\ txs[i].status = "completed"}

\* C32: for a passenger and a ride the fare is settled at most once: whatever
\* initiateRidePayment and completeRidePayment calls have been made, at most one
\* ride_payment transaction of that passenger for that ride is completed.
C32_FareSettledOnce ==
  \A u \in Users, r \in RideIds : Cardinality(CompletedPayments(u, r)) <= 1

C34_FailedCompletionNoEffect ==
  [][\A u \in Users, r \in RideIds, id \in 1..MaxTx :
       (res'.op = "completeRidePayment"
        /\ res'.resp \in {"NotFound", "Unauthorized", "InvalidState"}
        /\ completeRidePayment(u, r, id))
       => UNCHANGED <<txs, balance, rides>>]_vars

\* C35: once a ride is completed or cancelled its passenger list and its
\* availableSeats no longer change: requestRide, respondToRideRequest and
\* cancelRideRequest do not succeed on such a ride.
C35_ClosedRideFrozen ==
  [][\A r \in RideIds :
       (rides[r].status \in {"completed", "cancelled"}
        /\ res'.op \in {"requestRide", "respondToRideRequest", "cancelRideRequest"})
       => /\ res'.resp # "ok"
          /\ rides'[r].passengers = rides[r].passengers
          /\ rides'[r].availableSeats = rides[r].availableSeats]_vars

C37_PassengerListMatches ==
  \A r \in RideIds, u \in Users :
    rides[r].status \in {"scheduled", "in_progress"}
    => (r \in ridesAsPassenger[u] <=> HasAccepted(rides[r], u))

\* the refund transactions created for passenger u and ride r
Refunds(u, r) ==
  {i \in 1..Len(txs) : txs[i].type = "refund" /\ txs[i].receiver = u /\ txs[i].ride = r}

\* C39: at most one refund transaction is ever created for a completed
\* ride_payment transaction: for every passenger and ride there are no more refund
\* transactions than completed ride payments.
C39_OneRefundPerPayment ==
  \A u \in Users, r \in RideIds :
    Cardinality(Refunds(u, r)) <= Cardinality(CompletedPayments(u, r))

\* ------------------------------------------------- concurrent completeRide
\* Ride.findById of completeRide: the request keeps the document it has read
completeRead(w, d, r) ==
  /\ \A q \in reqs : q.worker # w
  /\ reqs' = reqs \cup {[worker |-> w, kind |-> "complete", driver |-> d, ride |-> r,
                          doc |-> rides[r]]}
  /\ UNCHANGED <<userVars, rideVars, ledgerVars, notifs, res>>

\* the rest of completeRide: the status check on the document read, ride.save()
\* and the updates of the driver and of the accepted passengers
completeSave(w) ==
  \E q \in reqs :
    /\ q.worker = w
    /\ q.kind = "complete"
    /\ CompleteWith(q.doc, q.driver, q.ride)
    /\ reqs' = {x \in reqs : x.worker # w}

NextComplete ==
  \/ \E d \in Drivers, r \in RideIds : startRide(d, r)
  \/ \E w \in Workers, d \in Drivers, r \in RideIds : completeRead(w, d, r)
  \/ \E w \in Workers : completeSave(w)

SpecComplete == InitImpact /\ [][NextComplete]_vars

\* x <= y for two fractions with positive denominators
RatLeq(x, y) == x[1] * y[2] <= y[1] * x[2]

ImpactLeq(a, b) ==
  /\ RatLeq(a.co2Saved, b.co2Saved)
  /\ RatLeq(a.fuelSaved, b.fuelSaved)
  /\ RatLeq(a.treesEquivalent, b.treesEquivalent)

\* C40: the impact of a ride is settled at most once, however the completeRide
\* calls on it interleave: the accumulator of the driver never exceeds the
\* amounts of the ride, that of an accepted passenger never exceeds the
\* passenger's share, and no accumulator ever decreases.
C40_ImpactSettledOnce ==
  [][\A r \in RideIds :
       LET ride == rides'[r]
           total == TripImpact(ride)
           passengers == Recipients(Accepted(ride))
       IN /\ ImpactLeq(environmentalImpact'[ride.driver], total)
          /\ \A i \in 1..Len(passengers) :
               ImpactLeq(environmentalImpact'[passengers[i]],
                         Share(total, Len(passengers)))
          /\ \A u \in Users : ImpactLeq(environmentalImpact[u], environmentalImpact'[u])]_vars

\* ------------------------------------------------ the ride's impact snapshot
\* updateRide bodies that set the route's distance: {route: {distance: n}}
SnapshotBodies == {[field |-> "route.distance", num |-> n, str |-> None] : n \in {100, 200}}

NextSnapshot ==
  \/ \E u \in Drivers, seats \in 1..MaxSeats, route \in Routes, trip \in Trips :
       createRide(u, seats, route[1], route[2], trip)
  \/ \E u \in Users, r \in RideIds : requestRide(u, r)
  \/ \E d \in Drivers, r \in RideIds, target \in Users, status \in {"accepted", "rejected"} :
       respondToRideRequest(d, r, target, status)
  \/ \E u \in Users, r \in RideIds : cancelRideRequest(u, r)
  \/ \E u \in Users, r \in RideIds : cancelRide(u, r)
  \/ \E d \in Drivers, r \in RideIds, body \in SnapshotBodies : updateRide(d, r, body)

SpecSnapshot == Init /\ [][NextSnapshot]_vars

\* C38: at every reachable state a ride's environmentalImpact snapshot equals
\* the formula applied to its current distance, fuel efficiency and number of
\* accepted passenger entries
C38_SnapshotCurrent ==
  \A r \in RideIds :
    rides[r].status # "none" => rides[r].environmentalImpact = TripImpact(rides[r])
====
